---- MODULE Spec2Model ----
(***************************************************************************)
(* Model of the patient dashboard's countdown hand-off (streamlit_app.py): *)
(* the session-state latch of the column-Q timer, the remaining-time       *)
(* computation, the signed timer token (sign_token) and the decoder the    *)
(* file documents for the secondary app (verify_and_load).                 *)
(*                                                                         *)
(* Text is modelled as sequences of character codes (ASCII), bytes as      *)
(* sequences of 0..255, so that base64url and JSON are computed the way    *)
(* the Python library computes them.                                       *)
(***************************************************************************)
EXTENDS Integers, Sequences, FiniteSets, TLC

\* ------------------------------------------------------------------------
\* Character codes used by the token format
\* ------------------------------------------------------------------------
Dot == 46
Pad == 61
Minus == 45

K_row == <<114, 111, 119>>
K_origin == <<111, 114, 105, 103, 105, 110>>
K_t0 == <<116, 48>>
K_exp == <<101, 120, 112>>

\* key order of the payload dict literal
FieldOrder == <<K_row, K_origin, K_t0, K_exp>>

\* "dev-only"
DevOnly == <<100, 101, 118, 45, 111, 110, 108, 121>>

\* ------------------------------------------------------------------------
\* base64url
\* ------------------------------------------------------------------------
\* the URL-safe alphabet: A-Z a-z 0-9 - _
B64Char(i) ==
  IF i < 26 THEN 65 + i
  ELSE IF i < 52 THEN 97 + (i - 26)
  ELSE IF i < 62 THEN 48 + (i - 52)
  ELSE IF i = 62 THEN 45
  ELSE 95

\* base64.urlsafe_b64encode: every three bytes become four characters of six
\* bits each, the last group is filled with zero bits and padded with '='
b64encode(data) ==
  LET n == Len(data)
      Byte(i) == IF i <= n THEN data[i] ELSE 0
      Sextet(k) ==
        LET g == (k - 1) \div 4
            p == (k - 1) % 4
            b1 == Byte(3 * g + 1)
            b2 == Byte(3 * g + 2)
            b3 == Byte(3 * g + 3)
        IN IF p = 0 THEN b1 \div 4
           ELSE IF p = 1 THEN (b1 % 4) * 16 + b2 \div 16
           ELSE IF p = 2 THEN (b2 % 16) * 4 + b3 \div 64
           ELSE b3 % 64
  IN [k \in 1..(4 * ((n + 2) \div 3)) |->
        IF k <= (4 * n + 2) \div 3 THEN B64Char(Sextet(k)) ELSE Pad]

RECURSIVE rstrip(_, _)
\* str.rstrip(ch)
rstrip(s, ch) ==
  IF Len(s) > 0 /\ s[Len(s)] = ch THEN rstrip(SubSeq(s, 1, Len(s) - 1), ch)
  ELSE s

\* _b64url(data): unpadded URL-safe base64 text
b64url(data) == rstrip(b64encode(data), Pad)

\* table_a2b_base64 after urlsafe_b64decode's translation of "-_" to "+/":
\* the value of a character, 64 for a character outside the alphabet
A2BValue(c) ==
  IF c >= 65 /\ c <= 90 THEN c - 65
  ELSE IF c >= 97 /\ c <= 122 THEN c - 71
  ELSE IF c >= 48 /\ c <= 57 THEN c + 4
  ELSE IF c = 43 \/ c = 45 THEN 62
  ELSE IF c = 47 \/ c = 95 THEN 63
  ELSE 64

IsB64(c) == A2BValue(c) < 64

\* binascii.a2b_base64 in its default (non-strict) mode: characters outside
\* the alphabet are skipped; a '=' that completes the padding of a quad holding
\* two or three characters ends the parse (the quad's left-over bits are
\* dropped); otherwise an incomplete final quad is an error
a2b_base64(s) ==
  LET ValidBefore(i) == Cardinality({k \in 1..(i - 1) : IsB64(s[k])})
      LastValid(i) ==
        LET vs == {k \in 1..(i - 1) : IsB64(s[k])} IN
        IF vs = {} THEN 0 ELSE CHOOSE k \in vs : \A m \in vs : m <= k
      quad_pos(i) == ValidBefore(i) % 4
      pads(i) == Cardinality({k \in (LastValid(i) + 1)..(i - 1) : s[k] = Pad})
      stops == {i \in 1..Len(s) :
                  s[i] = Pad /\ quad_pos(i) >= 2 /\ quad_pos(i) + pads(i) + 1 >= 4}
      end == IF stops = {} THEN Len(s) + 1
             ELSE CHOOSE i \in stops : \A m \in stops : i <= m
      chars == SelectSeq(SubSeq(s, 1, end - 1), IsB64)
      nv == Len(chars)
      V(k) == A2BValue(chars[k])
      nbytes == (nv \div 4) * 3
                + (IF nv % 4 = 2 THEN 1 ELSE IF nv % 4 = 3 THEN 2 ELSE 0)
      Octet(j) ==
        LET g == (j - 1) \div 3
            p == (j - 1) % 3
        IN IF p = 0 THEN V(4 * g + 1) * 4 + V(4 * g + 2) \div 16
           ELSE IF p = 1 THEN (V(4 * g + 2) % 16) * 16 + V(4 * g + 3) \div 4
           ELSE (V(4 * g + 3) % 4) * 64 + V(4 * g + 4)
  IN IF stops = {} /\ nv % 4 # 0 THEN [ok |-> FALSE, bytes |-> <<>>]
     ELSE [ok |-> TRUE, bytes |-> [j \in 1..nbytes |-> Octet(j)]]

\* '=' * (-len(s) % 4)
Padding(s) ==
  LET n == (4 - (Len(s) % 4)) % 4 IN [k \in 1..n |-> Pad]

\* variant that decodes the text as it stands, without the padding
b64url_decode_unpadded(s) ==
  IF \E k \in 1..Len(s) : s[k] > 127 THEN [ok |-> FALSE, bytes |-> <<>>]
  ELSE a2b_base64(s)

\* b64url_decode(s): pad to a multiple of four, then urlsafe_b64decode, which
\* refuses text holding a non-ASCII character
b64url_decode(s) ==
  IF \E k \in 1..Len(s) : s[k] > 127 THEN [ok |-> FALSE, bytes |-> <<>>]
  ELSE a2b_base64(s \o Padding(s))

\* ------------------------------------------------------------------------
\* JSON of a flat object with integer values
\* ------------------------------------------------------------------------
EmptyDict == [k \in {} |-> 0]

RECURSIVE Digits(_)
Digits(n) == IF n < 10 THEN <<48 + n>> ELSE Digits(n \div 10) \o <<48 + (n % 10)>>

\* str(int) as json.dumps writes an integer
IntStr(n) == IF n < 0 THEN <<Minus>> \o Digits(0 - n) ELSE Digits(n)

RECURSIVE JsonMembers(_, _, _)
\* the members of dict p for the keys order[i..], each preceded by ',' except
\* the first one written
JsonMembers(p, i, first) ==
  IF i > Len(FieldOrder) THEN <<>>
  ELSE IF FieldOrder[i] \notin DOMAIN p THEN JsonMembers(p, i + 1, first)
  ELSE (IF first THEN <<>> ELSE <<44>>)
       \o <<34>> \o FieldOrder[i] \o <<34, 58>> \o IntStr(p[FieldOrder[i]])
       \o JsonMembers(p, i + 1, FALSE)

\* json.dumps(payload, separators=(",", ":"), ensure_ascii=False).encode()
\* for a dict whose keys, in insertion order, are among row, origin, t0, exp
json_dumps(p) == <<123>> \o JsonMembers(p, 1, TRUE) \o <<125>>

IsDigit(c) == c >= 48 /\ c <= 57

RECURSIVE RunEnd(_, _)
\* index of the last digit of the digit run starting at i (i - 1 if none)
RunEnd(b, i) == IF i <= Len(b) /\ IsDigit(b[i]) THEN RunEnd(b, i + 1) ELSE i - 1

RECURSIVE DecVal(_, _, _)
DecVal(b, i, j) == IF i > j THEN 0 ELSE DecVal(b, i, j - 1) * 10 + (b[j] - 48)

RECURSIVE QuoteAt(_, _)
\* index of the first '"' at or after i (Len + 1 if none)
QuoteAt(b, i) == IF i > Len(b) \/ b[i] = 34 THEN i ELSE QuoteAt(b, i + 1)

RECURSIVE LoadMembers(_, _, _)
\* the members of a JSON object from position i on: "key":int, separated by
\* ',' and closed by '}' at the end of the text; a later key replaces an earlier
LoadMembers(b, i, acc) ==
  LET q == QuoteAt(b, i + 1)
      neg == q + 2 <= Len(b) /\ b[q + 2] = Minus
      d == IF neg THEN q + 3 ELSE q + 2
      e == IF d <= Len(b) /\ b[d] = 48 THEN d ELSE RunEnd(b, d)
      key == SubSeq(b, i + 1, q - 1)
      val == IF neg THEN 0 - DecVal(b, d, e) ELSE DecVal(b, d, e)
      acc2 == [k \in (DOMAIN acc) \cup {key} |-> IF k = key THEN val ELSE acc[k]]
  IN
  IF i > Len(b) \/ b[i] # 34 THEN [ok |-> FALSE, dict |-> EmptyDict]
  ELSE IF q > Len(b) \/ (\E k \in (i + 1)..(q - 1) : b[k] = 92 \/ b[k] < 32)
    THEN [ok |-> FALSE, dict |-> EmptyDict]
  ELSE IF q + 1 > Len(b) \/ b[q + 1] # 58 THEN [ok |-> FALSE, dict |-> EmptyDict]
  ELSE IF e < d \/ e + 1 > Len(b) THEN [ok |-> FALSE, dict |-> EmptyDict]
  ELSE IF b[e + 1] = 125 THEN
    IF e + 1 = Len(b) THEN [ok |-> TRUE, dict |-> acc2]
    ELSE [ok |-> FALSE, dict |-> EmptyDict]
  ELSE IF b[e + 1] = 44 THEN LoadMembers(b, e + 2, acc2)
  ELSE [ok |-> FALSE, dict |-> EmptyDict]

\* json.loads(data) for the compact objects json_dumps writes; any other text
\* is a parse error
json_loads(b) ==
  IF Len(b) < 2 \/ b[1] # 123 THEN [ok |-> FALSE, dict |-> EmptyDict]
  ELSE IF Len(b) = 2 /\ b[2] = 125 THEN [ok |-> TRUE, dict |-> EmptyDict]
  ELSE LoadMembers(b, 2, EmptyDict)

\* ------------------------------------------------------------------------
\* Token codec
\* ------------------------------------------------------------------------
\* hmac.new(key, msg, hashlib.sha256).digest(), idealised: a keyed digest
\* without collisions (the length-prefixed key followed by the message), so
\* two digests are equal exactly when key and message are equal
hmac_digest(key, msg) == <<Len(key)>> \o key \o msg

\* (secret or "dev-only").encode()
SigningKey(secret) == IF secret = <<>> THEN DevOnly ELSE secret

\* (operands used more than once are bound through singleton sets, so that
\* each is computed once)
sign_token(p, s) ==
  CHOOSE tok \in
    {b64url(json_part) \o <<Dot>> \o b64url(hmac_digest(SigningKey(s), json_part)) :
       json_part \in {json_dumps(p)}} : TRUE

Malformed == [kind |-> "Malformed", payload |-> EmptyDict]
BadSignature == [kind |-> "BadSignature", payload |-> EmptyDict]
Expired == [kind |-> "Expired", payload |-> EmptyDict]
Ok(p) == [kind |-> "Ok", payload |-> p]

\* payload.get(key, default)
DictGet(p, key, default) == IF key \in DOMAIN p THEN p[key] ELSE default

\* variant: a token is expired from its expiry second on
LoadVerified_inclusive(data, now) ==
  CHOOSE r \in
    {IF ~l.ok THEN Malformed
     ELSE IF DictGet(l.dict, K_exp, 0) <= now THEN Expired
     ELSE [kind |-> "Ok", payload |-> l.dict] : l \in {json_loads(data)}} : TRUE

\* the last two steps of verify_and_load: json.loads of the verified bytes,
\* then the expiry check on payload.get('exp', 0)
LoadVerified(data, now) ==
  CHOOSE r \in
    {IF ~l.ok THEN Malformed
     ELSE IF DictGet(l.dict, K_exp, 0) < now THEN Expired
     ELSE Ok(l.dict) : l \in {json_loads(data)}} : TRUE

\* variant of the comparison: the payload is loaded and its expiry checked
\* before the signature is compared
VerifyParts_expiry_first(json_b64, sig_b64, s, now) ==
  CHOOSE r \in
    {IF ~data.ok \/ ~given.ok THEN Malformed
     ELSE IF LoadVerified(data.bytes, now).kind # "Ok" THEN LoadVerified(data.bytes, now)
     ELSE IF hmac_digest(SigningKey(s), data.bytes) # given.bytes THEN BadSignature
     ELSE LoadVerified(data.bytes, now) :
       data \in {b64url_decode(json_b64)}, given \in {b64url_decode(sig_b64)}} : TRUE

\* verify_and_load after the split: decode both parts, compare the digest
\* expected for the decoded bytes with the decoded signature
VerifyParts(json_b64, sig_b64, s, now) ==
  CHOOSE r \in
    {IF ~data.ok \/ ~given.ok THEN Malformed
     ELSE IF hmac_digest(SigningKey(s), data.bytes) # given.bytes THEN BadSignature
     ELSE LoadVerified(data.bytes, now) :
       data \in {b64url_decode(json_b64)}, given \in {b64url_decode(sig_b64)}} : TRUE

\* verify_and_load(token, secret) run when time.time() is now: the payload,
\* or the error raised ('bad signature', 'token expired', any other error)
verify_and_load(tok, s, now) ==
  CHOOSE r \in
    {LET dots == {k \in 1..Len(t) : t[k] = Dot} IN
     IF Cardinality(dots) # 1 THEN Malformed
     ELSE CHOOSE v \in
            {VerifyParts(SubSeq(t, 1, d - 1), SubSeq(t, d + 1, Len(t)), s, now) :
               d \in dots} : TRUE :
       t \in {tok}} : TRUE

\* ------------------------------------------------------------------------
\* Values of the backend's JSON response: None, an integer, a float (counted
\* in halves, so that rounding has ties) or a string
\* ------------------------------------------------------------------------
None == [t |-> "none", n |-> 0, s |-> <<>>]
PyInt(k) == [t |-> "int", n |-> k, s |-> <<>>]
PyFloat(halves) == [t |-> "float", n |-> halves, s |-> <<>>]
PyStr(text) == [t |-> "str", n |-> 0, s |-> text]

\* value == 0 in Python: the integer 0 or the float 0.0
IsZero(v) == v.t \in {"int", "float"} /\ v.n = 0

Max(a, b) == IF a >= b THEN a ELSE b

IsSpace(c) == c \in {9, 10, 11, 12, 13, 32}

RECURSIVE lstrip(_)
lstrip(s) == IF Len(s) > 0 /\ IsSpace(s[1]) THEN lstrip(Tail(s)) ELSE s

RECURSIVE rstripSpace(_)
rstripSpace(s) ==
  IF Len(s) > 0 /\ IsSpace(s[Len(s)]) THEN rstripSpace(SubSeq(s, 1, Len(s) - 1))
  ELSE s

\* str.strip()
strip(s) == rstripSpace(lstrip(s))

\* str.isdigit() on ASCII text
isdigit(s) == Len(s) > 0 /\ \A k \in 1..Len(s) : IsDigit(s[k])

\* int(s) of a string of digits
DigitsVal(s) == DecVal(s, 1, Len(s))

\* round(x) of the float halves/2: to the nearest integer, ties to even
RoundHalfEven(halves) ==
  LET f == halves \div 2 IN
  IF halves % 2 = 0 THEN f
  ELSE IF f % 2 = 0 THEN f ELSE f + 1

\* str(value) of a value that is not a number: "None" for None
StrOf(v) == IF v.t = "none" THEN <<78, 111, 110, 101>> ELSE v.s

\* s.split(":")
SplitColon(s) ==
  LET cs == {k \in 1..Len(s) : s[k] = 58}
      Nth(j) == CHOOSE k \in cs : Cardinality({m \in cs : m < k}) = j - 1
      From(j) == IF j = 1 THEN 1 ELSE Nth(j - 1) + 1
      To(j) == IF j = Cardinality(cs) + 1 THEN Len(s) ELSE Nth(j) - 1
  IN [j \in 1..(Cardinality(cs) + 1) |-> SubSeq(s, From(j), To(j))]

\* variant that does not clamp a number at 0
parse_seconds_unclamped(value) ==
  IF value.t = "int" THEN value.n
  ELSE IF value.t = "float" THEN RoundHalfEven(value.n)
  ELSE
    LET s == strip(StrOf(value))
        parts == SplitColon(s)
    IN
    IF s = <<>> THEN 0
    ELSE IF isdigit(s) THEN Max(0, DigitsVal(s))
    ELSE IF Len(parts) = 2 THEN
      IF isdigit(parts[1]) /\ isdigit(parts[2])
      THEN Max(0, DigitsVal(parts[1]) * 60 + DigitsVal(parts[2]))
      ELSE 0
    ELSE IF Len(parts) = 3 THEN
      IF isdigit(parts[1]) /\ isdigit(parts[2]) /\ isdigit(parts[3])
      THEN Max(0, DigitsVal(parts[1]) * 3600 + DigitsVal(parts[2]) * 60
                  + DigitsVal(parts[3]))
      ELSE 0
    ELSE 0

\* parse_seconds(value): the seconds of a number, of a text of digits, of
\* mm:ss or hh:mm:ss; 0 for anything else
parse_seconds(value) ==
  IF value.t = "int" THEN Max(0, value.n)
  ELSE IF value.t = "float" THEN Max(0, RoundHalfEven(value.n))
  ELSE
    LET s == strip(StrOf(value))
        parts == SplitColon(s)
    IN
    IF s = <<>> THEN 0
    ELSE IF isdigit(s) THEN Max(0, DigitsVal(s))
    ELSE IF Len(parts) = 2 THEN
      IF isdigit(parts[1]) /\ isdigit(parts[2])
      THEN Max(0, DigitsVal(parts[1]) * 60 + DigitsVal(parts[2]))
      ELSE 0
    ELSE IF Len(parts) = 3 THEN
      IF isdigit(parts[1]) /\ isdigit(parts[2]) /\ isdigit(parts[3])
      THEN Max(0, DigitsVal(parts[1]) * 3600 + DigitsVal(parts[2]) * 60
                  + DigitsVal(parts[3]))
      ELSE 0
    ELSE 0

\* f"{n:02d}"
Pad2(n) == IF n < 10 THEN <<48>> \o Digits(n) ELSE Digits(n)

fmt_hms(secs) ==
  LET t == Max(0, secs)
      h == t \div 3600
      rem == t % 3600
  IN Pad2(h) \o <<58>> \o Pad2(rem \div 60) \o <<58>> \o Pad2(rem % 60)

\* int(row_str) of the "row" query parameter: the integer an optionally
\* signed run of digits denotes, surrounding blanks ignored; ValueError
\* (ok = FALSE) for any other text
int_of_str(text) ==
  LET s == strip(text)
      signed == Len(s) > 0 /\ s[1] \in {43, Minus}
      body == IF signed THEN Tail(s) ELSE s
  IN IF isdigit(body)
     THEN [ok |-> TRUE, n |-> IF signed /\ s[1] = Minus THEN 0 - DigitsVal(body)
                              ELSE DigitsVal(body)]
     ELSE [ok |-> FALSE, n |-> 0]

\* ------------------------------------------------------------------------
\* The dashboard script
\* ------------------------------------------------------------------------
\* bounds of the model
MaxClock == 2
MaxRow == 2
MaxDur == 2
MaxLen == 5

\* 24 * 3600: lifetime of a hand-off token
TOKEN_TTL == 24 * 3600

\* SECONDARY_APP_BASE
SECONDARY_APP_BASE ==
  <<104, 116, 116, 112, 115, 58, 47, 47, 101, 112, 114, 106, 45, 109, 99, 105, 45, 115, 101, 99, 111, 110, 100, 97, 114, 121, 116, 114, 105, 97, 103, 101, 46, 115, 116, 114, 101, 97, 109, 108, 105, 116, 46, 97, 112, 112, 47>>

S_edit == <<101, 100, 105, 116>>
S_view == <<118, 105, 101, 119>>
S_1 == <<49>>

\* "?row=", "&lock=1&timer_token="
S_row_eq == <<63, 114, 111, 119, 61>>
S_lock_token_eq == <<38, 108, 111, 99, 107, 61, 49, 38, 116, 105, 109, 101, 114, 95, 116, 111, 107, 101, 110, 61>>

\* secrets a deployment may configure: none, the fallback string itself, "k"
Secrets == {<<>>, DevOnly, <<107>>}

VARIABLES
  TOKEN,              \* st.secrets gas.token, the signing secret
  clock,              \* the wall clock, in seconds
  qp,                 \* st.query_params
  session_state,      \* st.session_state: row -> latched {origin, t0}
  page,               \* "init", "stopped" (st.stop) or "rendered"
  row,                \* values of the last script run
  raw_q,
  latched,
  remaining,
  exp,
  loaded,             \* secondary app: result of verify_and_load on the link
  sec_remaining,      \* secondary app: remaining computed from the payload
  payload,            \* codec: payload signed,
  secret,             \*   secret it is signed with,
  token,              \*   token in transit,
  tampered,           \*   what was done to it in transit,
  vsecret,            \*   secret of the decoder,
  result,             \*   result of verify_and_load
  js_remaining,       \* countdown script of the page: let remaining,
  digits,             \*   text of the element 'digits',
  pg_value,           \*   value of the progress element 'pg',
  intv                \*   the interval: "none", "active" or "cleared"

runVars == <<page, row, raw_q, latched, remaining, exp>>
appVars == <<TOKEN, clock, qp, session_state, runVars, loaded, sec_remaining>>
codecVars == <<payload, secret, token, tampered, vsecret, result>>
clientVars == <<js_remaining, digits, pg_value, intv>>
vars == <<appVars, codecVars, clientVars>>

NotLoaded == [kind |-> "None", payload |-> EmptyDict]
EmptySession == [k \in {} |-> 0]
NoAnchor == [origin |-> 0, t0 |-> 0]

\* variant without the floor at 1
RowOf_unclamped(q) ==
  LET parsed == int_of_str(DictGet(q, "row", S_1)) IN
  IF ~parsed.ok THEN 1 ELSE parsed.n

\* row_str = qp.get("row", "1"); int(row_str), 1 if it is below 1 or not a number
RowOf(q) ==
  LET parsed == int_of_str(DictGet(q, "row", S_1)) IN
  IF ~parsed.ok THEN 1 ELSE IF parsed.n < 1 THEN 1 ELSE parsed.n

\* mode = qp.get("mode", "edit")
ModeOf(q) == DictGet(q, "mode", S_edit)

\* A_Q.get("Q") if "Q" in A_Q else next(iter(A_Q.values()), None)
AQValue(A_Q) ==
  IF \E k \in 1..Len(A_Q) : A_Q[k].key = "Q"
  THEN A_Q[CHOOSE k \in 1..Len(A_Q) : A_Q[k].key = "Q"].val
  ELSE IF Len(A_Q) > 0 THEN A_Q[1].val ELSE None

\* the raw timer value of a backend response: timer_seconds, else A_Q, else
\* current_Q
SelectRawQ(data) ==
  IF data.timer_seconds = None \/ IsZero(data.timer_seconds) THEN
    IF AQValue(data.A_Q) = None \/ AQValue(data.A_Q) = PyStr(<<>>)
    THEN data.current_Q
    ELSE AQValue(data.A_Q)
  ELSE data.timer_seconds

\* variants of the latch: one that anchors on every run, one that keeps the
\* old t0 when the origin changes
latch_every_run(ss, r, origin, now) ==
  [k \in (DOMAIN ss) \cup {r} |->
     IF k = r THEN [origin |-> origin, t0 |-> now] ELSE ss[k]]

latch_keeps_t0(ss, r, origin, now) ==
  [k \in (DOMAIN ss) \cup {r} |->
     IF k = r
     THEN [origin |-> origin, t0 |-> IF r \in DOMAIN ss THEN ss[r].t0 ELSE now]
     ELSE ss[k]]

\* variant that stores the new anchor in place of the whole session state
latch_whole_session(ss, r, origin, now) ==
  IF r \notin DOMAIN ss \/ ss[r].origin # origin
  THEN [k \in {r} |-> [origin |-> origin, t0 |-> now]]
  ELSE ss

\* the session-state latch: a new {origin, t0} under the row's key when the
\* key is absent or its origin differs from the parsed timer
latch(ss, r, origin, now) ==
  IF r \notin DOMAIN ss \/ ss[r].origin # origin
  THEN [k \in (DOMAIN ss) \cup {r} |->
          IF k = r THEN [origin |-> origin, t0 |-> now] ELSE ss[k]]
  ELSE ss

\* variant that lets the elapsed time be negative
Remaining_signed_elapsed(anchor, now) ==
  LET elapsed == now - anchor.t0 IN Max(0, anchor.origin - elapsed)

\* variant without the floor at 0
Remaining_unfloored(anchor, now) ==
  LET elapsed == Max(0, now - anchor.t0) IN anchor.origin - elapsed

\* elapsed = max(0, now - t0); remaining = max(0, origin - elapsed)
Remaining(anchor, now) ==
  LET elapsed == Max(0, now - anchor.t0) IN Max(0, anchor.origin - elapsed)

\* the payload of the hand-off token
TokenPayload(r, anchor, e) ==
  (K_row :> r) @@ (K_origin :> anchor.origin) @@ (K_t0 :> anchor.t0)
  @@ (K_exp :> e)

\* SECONDARY_APP_BASE?row=<row>&lock=1&timer_token=<token>
SecondaryUrl(r, tok) ==
  SECONDARY_APP_BASE \o S_row_eq \o IntStr(r) \o S_lock_token_eq \o tok

\* values the last script run computed from its variables (line 242 of the
\* source, written with one leading space, is read as the top-level statement
\* it is meant to be)
timer_from_gsheet == parse_seconds(raw_q)
origin_seconds == latched.origin
initial_digits == fmt_hms(remaining)
progress_value == Max(0, origin_seconds - remaining)
progress_max == Max(1, IF origin_seconds > 0 THEN origin_seconds ELSE 1)
countdown_token == sign_token(TokenPayload(row, latched, exp), TOKEN)
secondary_url == SecondaryUrl(row, countdown_token)

\* backend responses of gas_get_row with status "ok"
Response(ts, aq, cq) ==
  [status |-> "ok", timer_seconds |-> ts, A_Q |-> aq, current_Q |-> cq]

Responses ==
  {Response(PyInt(MaxDur), <<>>, None),
   Response(None, <<[key |-> "Q", val |-> PyStr(<<48, 58, 48>> \o Digits(MaxDur))]>>, None),
   Response(PyInt(0), <<[key |-> "P", val |-> PyStr(<<>>)]>>, PyStr(<<48>>))}

\* values of the "row" query parameter: 0..MaxRow and "x"
RowStrs == {IntStr(k) : k \in 0..MaxRow} \cup {<<120>>}

EmptyParams == [k \in {} |-> <<>>]

\* the query parameters of the hand-off link
LinkParams(r, tok) ==
  [k \in {"row", "lock", "timer_token"} |->
     IF k = "row" THEN IntStr(r) ELSE IF k = "lock" THEN S_1 ELSE tok]

\* timer_token values no signer produced: "abc" (one part), "." (two empty
\* parts)
BadTokens == {<<97, 98, 99>>, <<Dot>>}

\* query strings a user may open
UrlParams ==
  {EmptyParams}
  \cup {[k \in {"row"} |-> rs] : rs \in RowStrs}
  \cup {[k \in {"row", "mode"} |-> IF k = "row" THEN S_1 ELSE S_view]}
  \cup {LinkParams(1, tok) : tok \in BadTokens}

\* set_query_params(row=str(row), mode=mode)
set_query_params(r, mode) ==
  [k \in {"row", "mode"} |-> IF k = "row" THEN IntStr(r) ELSE mode]

NoRun ==
  /\ page = "init"
  /\ row = 1
  /\ raw_q = None
  /\ latched = NoAnchor
  /\ remaining = 0
  /\ exp = 0

NoCodec ==
  /\ payload = EmptyDict
  /\ secret = <<>>
  /\ token = <<>>
  /\ tampered = "none"
  /\ vsecret = <<>>
  /\ result = NotLoaded

\* the countdown script has not run
NoClient ==
  /\ js_remaining = 0
  /\ digits = <<>>
  /\ pg_value = 0
  /\ intv = "none"

Init ==
  /\ TOKEN = <<107>>
  /\ clock = 0
  /\ qp = EmptyParams
  /\ session_state = EmptySession
  /\ NoRun
  /\ loaded = NotLoaded
  /\ sec_remaining = 0
  /\ NoCodec
  /\ NoClient

\* one run of the script up to the hand-off link, then q2 as query parameters
Render(data, q2) ==
  LET r == RowOf(qp)
      rq == SelectRawQ(data)
      ss2 == latch(session_state, r, parse_seconds(rq), clock)
  IN
  /\ data.status = "ok"
  /\ row' = r
  /\ raw_q' = rq
  /\ session_state' = ss2
  /\ latched' = ss2[r]
  /\ remaining' = Remaining(ss2[r], clock)
  /\ exp' = clock + TOKEN_TTL
  /\ page' = "rendered"
  /\ qp' = q2
  /\ loaded' = NotLoaded
  /\ sec_remaining' = 0
  /\ UNCHANGED <<TOKEN, clock, codecVars, clientVars>>

\* a rerun of the script with nothing pressed (or a failed update)
Rerun(data) == Render(data, qp)

\* edit mode: Submit pressed and the update accepted by the backend
SubmitForm(data) ==
  /\ ModeOf(qp) # S_view
  /\ Render(data, set_query_params(RowOf(qp), S_view))

\* view mode: "Edit this row again" pressed
EditAgain(data) ==
  /\ ModeOf(qp) = S_view
  /\ Render(data, set_query_params(RowOf(qp), S_edit))

\* the page is left for a URL with query parameters q: the values of the last
\* run are gone
Load(q) ==
  /\ qp' = q
  /\ page' = "init"
  /\ row' = 1
  /\ raw_q' = None
  /\ latched' = NoAnchor
  /\ remaining' = 0
  /\ exp' = 0
  /\ loaded' = NotLoaded
  /\ sec_remaining' = 0
  /\ UNCHANGED <<TOKEN, clock, codecVars, clientVars>>

\* the script stops before the timer (st.stop): no web app URL, a failed fetch
\* or a response whose status is not "ok"; the page shows the error only
StopRun ==
  /\ page # "stopped"
  /\ qp' = qp
  /\ page' = "stopped"
  /\ row' = 1
  /\ raw_q' = None
  /\ latched' = NoAnchor
  /\ remaining' = 0
  /\ exp' = 0
  /\ loaded' = NotLoaded
  /\ sec_remaining' = 0
  /\ UNCHANGED <<TOKEN, clock, session_state, codecVars, clientVars>>

\* the user opens the dashboard with other query parameters
Navigate(q) ==
  /\ Load(q)
  /\ UNCHANGED session_state

\* the hand-off link of the page is opened in a dashboard instance, in a
\* session of its own
FollowLink ==
  /\ page = "rendered"
  /\ Load(LinkParams(row, countdown_token))
  /\ session_state' = EmptySession

\* the same URL in a new browser session: st.session_state starts empty
NewSession ==
  /\ session_state # EmptySession
  /\ Load(qp)
  /\ session_state' = EmptySession

\* the wall clock advances, or is set back
Tick ==
  /\ clock < MaxClock
  /\ clock' = clock + 1
  /\ UNCHANGED <<TOKEN, qp, session_state, runVars, loaded, sec_remaining,
                 codecVars, clientVars>>

ClockBack ==
  /\ clock > 0
  /\ clock' = clock - 1
  /\ UNCHANGED <<TOKEN, qp, session_state, runVars, loaded, sec_remaining,
                 codecVars, clientVars>>

Next ==
  \/ \E data \in Responses : Rerun(data)
  \/ \E data \in Responses : SubmitForm(data)
  \/ \E data \in Responses : EditAgain(data)
  \/ StopRun
  \/ \E q \in UrlParams : Navigate(q)
  \/ FollowLink
  \/ NewSession
  \/ Tick
  \/ ClockBack

Spec == Init /\ [][Next]_vars

\* ------------------------------------------------------------------------
\* The hand-off on its own: a page of the dashboard, and the secondary app
\* opening its link
\* ------------------------------------------------------------------------
HandoffInit ==
  /\ TOKEN \in Secrets
  /\ clock \in 0..MaxClock
  /\ qp = EmptyParams
  /\ row \in 1..MaxRow
  /\ raw_q = None
  /\ latched \in [origin : 0..MaxDur, t0 : 0..MaxClock]
  /\ session_state = [k \in {row} |-> latched]
  /\ page = "rendered"
  /\ remaining = Remaining(latched, clock)
  /\ exp = clock + TOKEN_TTL
  /\ loaded = NotLoaded
  /\ sec_remaining = 0
  /\ NoCodec
  /\ NoClient

\* the secondary app opens the link: verify_and_load on its token, at once or
\* after the token's lifetime, then
\* remaining = max(0, payload['origin'] - (now - payload['t0']))
SecondaryOpen(late) ==
  /\ page = "rendered"
  /\ \E now \in {IF late THEN clock + TOKEN_TTL + 1 ELSE clock} :
       \E res \in {verify_and_load(countdown_token, TOKEN, now)} :
         /\ loaded' = res
         /\ sec_remaining' =
              IF res.kind = "Ok"
              THEN Max(0, res.payload[K_origin] - (now - res.payload[K_t0]))
              ELSE 0
  /\ UNCHANGED <<TOKEN, clock, qp, session_state, runVars, codecVars, clientVars>>

HandoffNext ==
  \/ Tick
  \/ ClockBack
  \/ \E late \in BOOLEAN : SecondaryOpen(late)

HandoffSpec == HandoffInit /\ [][HandoffNext]_vars

\* ------------------------------------------------------------------------
\* The token codec on its own: a payload is signed, the token may be changed
\* in transit, and verify_and_load is run on what arrives
\* ------------------------------------------------------------------------
\* payloads with all four fields, of three JSON lengths modulo 3
FullPayloads ==
  {(K_row :> 1) @@ (K_origin :> o) @@ (K_t0 :> t) @@ (K_exp :> 1) :
     o \in {MaxDur, 10 + MaxDur}, t \in {0, 10}}

\* a payload without the fields of ks
Without(p, ks) == [k \in (DOMAIN p) \ ks |-> p[k]]

CodecPayloads ==
  FullPayloads
  \cup {Without(TokenPayload(1, [origin |-> MaxDur, t0 |-> 0], 1), {k}) :
          k \in {K_row, K_origin, K_t0, K_exp}}
  \cup {EmptyDict}

\* bit b of character code c inverted
FlipBit(c, b) ==
  LET w == IF b = 0 THEN 1 ELSE IF b = 1 THEN 2 ELSE IF b = 2 THEN 4
           ELSE IF b = 3 THEN 8 ELSE IF b = 4 THEN 16 ELSE IF b = 5 THEN 32
           ELSE IF b = 6 THEN 64 ELSE 128
  IN IF (c \div w) % 2 = 1 THEN c - w ELSE c + w

\* position of the first '.' of a token (Len + 1 if none)
DotAt(tok) ==
  IF \E k \in 1..Len(tok) : tok[k] = Dot
  THEN CHOOSE k \in 1..Len(tok) : tok[k] = Dot /\ \A m \in 1..(k - 1) : tok[m] # Dot
  ELSE Len(tok) + 1

CodecInit ==
  /\ TOKEN = <<>>
  /\ clock \in 1..MaxClock + 1
  /\ qp = EmptyParams
  /\ session_state = EmptySession
  /\ NoRun
  /\ loaded = NotLoaded
  /\ sec_remaining = 0
  /\ payload \in CodecPayloads
  /\ secret \in Secrets
  /\ token = <<>>
  /\ tampered = "none"
  /\ vsecret = <<>>
  /\ result = NotLoaded
  /\ NoClient

\* token = sign_token(payload, secret)
Sign ==
  /\ token = <<>>
  /\ token' = sign_token(payload, secret)
  /\ UNCHANGED <<appVars, clientVars, payload, secret, tampered, vsecret, result>>

Untouched == token # <<>> /\ tampered = "none" /\ result = NotLoaded

\* one bit of the payload portion is inverted
Flip(i, b) ==
  /\ Untouched
  /\ i < DotAt(token)
  /\ token' = [token EXCEPT ![i] = FlipBit(token[i], b)]
  /\ tampered' = "payload"
  /\ UNCHANGED <<appVars, clientVars, payload, secret, vsecret, result>>

\* the payload portion is replaced by the encoding of the payload with a later
\* expiry, the signature is kept
Forge ==
  /\ Untouched
  /\ K_exp \in DOMAIN payload
  /\ \E sig \in {SubSeq(token, DotAt(token), Len(token))} :
       token' = b64url(json_dumps([payload EXCEPT ![K_exp] = @ + TOKEN_TTL])) \o sig
  /\ tampered' = "forged"
  /\ UNCHANGED <<appVars, clientVars, payload, secret, vsecret, result>>

\* the '.' is removed
DropDot ==
  /\ Untouched
  /\ \E d \in {DotAt(token)} :
       token' = SubSeq(token, 1, d - 1) \o SubSeq(token, d + 1, Len(token))
  /\ tampered' = "nodot"
  /\ UNCHANGED <<appVars, clientVars, payload, secret, vsecret, result>>

\* a third part is appended
AddPart ==
  /\ Untouched
  /\ token' = token \o <<Dot, 65>>
  /\ tampered' = "parts"
  /\ UNCHANGED <<appVars, clientVars, payload, secret, vsecret, result>>

\* verify_and_load(token, vs) at time clock; a token with an inverted bit is
\* decoded with the signing secret
Decode(vs) ==
  /\ token # <<>>
  /\ result = NotLoaded
  /\ tampered = "payload" => vs = secret
  /\ vsecret' = vs
  /\ result' = verify_and_load(token, vs, clock)
  /\ UNCHANGED <<appVars, clientVars, payload, secret, token, tampered>>

CodecNext ==
  \/ Sign
  \/ \E i \in 1..Len(token), b \in 0..7 : Flip(i, b)
  \/ Forge
  \/ DropDot
  \/ AddPart
  \/ \E vs \in Secrets : Decode(vs)

CodecSpec == CodecInit /\ [][CodecNext]_vars

\* ------------------------------------------------------------------------
\* The remaining-time computation on its own: an anchor, observed at
\* arbitrary clock readings
\* ------------------------------------------------------------------------
TimerInit ==
  /\ TOKEN = <<>>
  /\ clock \in 0..(MaxClock + MaxDur + 2)
  /\ qp = EmptyParams
  /\ session_state = EmptySession
  /\ page = "init"
  /\ row = 1
  /\ raw_q = None
  /\ latched \in [origin : 0..MaxDur, t0 : 0..(MaxClock + 1)]
  /\ remaining = 0
  /\ exp = 0
  /\ loaded = NotLoaded
  /\ sec_remaining = 0
  /\ NoCodec
  /\ NoClient

\* remaining is computed for the anchor when the clock reads now
Observe(now) ==
  /\ clock' = now
  /\ remaining' = Remaining(latched, now)
  /\ page' = "rendered"
  /\ UNCHANGED <<TOKEN, qp, session_state, row, raw_q, latched, exp, loaded,
                 sec_remaining, codecVars, clientVars>>

TimerNext == \E now \in 0..(MaxClock + MaxDur + 2) : Observe(now)

TimerSpec == TimerInit /\ [][TimerNext]_vars

\* ------------------------------------------------------------------------
\* The countdown script of a rendered page on its own: the values the page was
\* rendered with, then the script and its interval
\* ------------------------------------------------------------------------
Min(a, b) == IF a <= b THEN a ELSE b

\* fmt(n): String(n).padStart(2, '0')
fmt(n) == IF n < 10 THEN <<48>> \o Digits(n) ELSE Digits(n)

\* render(): the text of 'digits' and the value of 'pg' for the script's
\* remaining (an integer, Math.floor leaves it as it is); pg is written only
\* when origin > 0
render(rem, origin, pg) ==
  LET s == Max(0, rem)
      h == s \div 3600
      m == (s % 3600) \div 60
      ss == s % 60
  IN [digits |-> fmt(h) \o <<58>> \o fmt(m) \o <<58>> \o fmt(ss),
      pg |-> IF origin > 0 THEN Min(origin, Max(0, origin - s)) ELSE pg]

\* origins of the pages: 0..MaxDur, and one above a minute
ClientOrigins == (0..MaxDur) \cup {60 + MaxDur}

\* a page as the script run leaves it: initial_digits and progress_value in
\* the markup, the script not yet run
ClientInit ==
  /\ TOKEN = <<>>
  /\ clock \in 0..MaxClock
  /\ qp = EmptyParams
  /\ row = 1
  /\ raw_q = None
  /\ latched \in [origin : ClientOrigins, t0 : 0..MaxClock]
  /\ session_state = [k \in {row} |-> latched]
  /\ page = "rendered"
  /\ remaining = Remaining(latched, clock)
  /\ exp = clock + TOKEN_TTL
  /\ loaded = NotLoaded
  /\ sec_remaining = 0
  /\ NoCodec
  /\ js_remaining = 0
  /\ digits = initial_digits
  /\ pg_value = progress_value
  /\ intv = "none"

\* the script runs: let remaining = {remaining}; render(); setInterval(...)
ScriptStart ==
  /\ intv = "none"
  /\ js_remaining' = remaining
  /\ \E shown \in {render(remaining, origin_seconds, pg_value)} :
       /\ digits' = shown.digits
       /\ pg_value' = shown.pg
  /\ intv' = "active"
  /\ UNCHANGED <<appVars, codecVars>>

\* variant of the callback that stops only below 0
IntervalTick_below_zero ==
  /\ intv = "active"
  /\ \E r1 \in {js_remaining - 1} :
       /\ js_remaining' = IF r1 < 0 THEN 0 ELSE r1
       /\ \E shown \in {render(js_remaining', origin_seconds, pg_value)} :
            /\ digits' = shown.digits
            /\ pg_value' = shown.pg
       /\ intv' = IF r1 < 0 THEN "cleared" ELSE "active"
  /\ UNCHANGED <<appVars, codecVars>>

\* the interval's callback, every 1000 ms: remaining -= 1; at or below 0 it
\* is set to 0, rendered, and the interval is cleared; else it is rendered
IntervalTick ==
  /\ intv = "active"
  /\ \E r1 \in {js_remaining - 1} :
       /\ js_remaining' = IF r1 <= 0 THEN 0 ELSE r1
       /\ \E shown \in {render(js_remaining', origin_seconds, pg_value)} :
            /\ digits' = shown.digits
            /\ pg_value' = shown.pg
       /\ intv' = IF r1 <= 0 THEN "cleared" ELSE "active"
  /\ UNCHANGED <<appVars, codecVars>>

ClientNext ==
  \/ ScriptStart
  \/ IntervalTick

ClientSpec == ClientInit /\ [][ClientNext]_vars

\* the browser runs the script of a loaded page, and calls the callback of an
\* interval that is not cleared every second
ClientFairSpec ==
  ClientSpec /\ WF_vars(ScriptStart) /\ WF_vars(IntervalTick)

\* ------------------------------------------------------------------------
\* The timer value of one run on its own: a backend whose only timer field,
\* current_Q, holds an arbitrary value
\* ------------------------------------------------------------------------
\* characters of the texts: '0', '2', ':', ' ', 'x'
ParseAlphabet == {48, 50, 58, 32, 120}

ParseTexts == UNION {[1..n -> ParseAlphabet] : n \in 0..MaxLen}

\* values a backend field may hold: null, integers, floats (in halves), texts
ParseInputs ==
  {None}
  \cup {PyInt(k) : k \in (0 - 2)..MaxDur}
  \cup {PyFloat(h) : h \in (0 - 3)..(2 * MaxDur + 1)}
  \cup {PyStr(t) : t \in ParseTexts}

\* the first run of a session, for a response with that value
ParseRun(v) ==
  /\ page = "init"
  /\ Render(Response(None, <<>>, v), qp)

ParseNext == \E v \in ParseInputs : ParseRun(v)

ParseSpec == Init /\ [][ParseNext]_vars

\* ------------------------------------------------------------------------
\* The choice of the raw timer value on its own: runs of the pages against a
\* backend whose three timer fields hold any mix of empty and filled values
\* ------------------------------------------------------------------------
\* a field that carries no duration: null or ""
BlankValues == {None, PyStr(<<>>)}

\* responses with timer_seconds MaxDur or 0, A_Q value "0:0<MaxDur>" under the
\* key Q or another key, current_Q "1", each of them also blank or absent
CandidateResponses ==
  {Response(ts, aq, cq) :
     ts \in BlankValues \cup {PyInt(0), PyInt(MaxDur)},
     aq \in {<<>>}
            \cup {<<[key |-> k, val |-> v]>> :
                    k \in {"Q", "P"},
                    v \in {PyStr(<<>>), PyStr(<<48, 58, 48>> \o Digits(MaxDur))}},
     cq \in BlankValues \cup {PyStr(<<49>>)}}

SelectNext ==
  \/ \E data \in CandidateResponses : Rerun(data)
  \/ \E rs \in RowStrs : Navigate([k \in {"row"} |-> rs])
  \/ Tick

SelectSpec == Init /\ [][SelectNext]_vars

\* ------------------------------------------------------------------------
\* Properties
\* ------------------------------------------------------------------------
\* the step is a run of the script that reached the timer
ScriptRun == \E data \in Responses : Render(data, qp')

\* the clock reading of the last run
RunClock == exp - TOKEN_TTL

\* C1: latch idempotence. A run of the script for a row whose key holds an
\* anchor with the origin the run parses leaves that anchor, t0 and origin,
\* as it was, whatever the clock reads.
C1_LatchIdempotent ==
  [][(/\ ScriptRun
      /\ row' \in DOMAIN session_state
      /\ session_state[row'].origin = parse_seconds(raw_q'))
       => session_state'[row'] = session_state[row']]_vars

\* a run later than the anchoring of its row kept the anchor
C1_Witness ==
  /\ page = "rendered"
  /\ latched.origin > 0
  /\ RunClock > latched.t0
  /\ row \in DOMAIN session_state
  /\ session_state[row] = latched

\* C2: latch re-anchor. A run of the script for a row whose key is absent, or
\* holds an anchor of another origin than the run parses, stores exactly
\* {origin: the parsed origin, t0: the clock reading of the run}.
C2_LatchReanchors ==
  [][(/\ ScriptRun
      /\ \/ row' \notin DOMAIN session_state
         \/ session_state[row'].origin # parse_seconds(raw_q'))
       => session_state'[row'] =
            [origin |-> parse_seconds(raw_q'), t0 |-> clock]]_vars

\* an anchor of origin 0 taken at a later clock reading, while another row
\* holds a running anchor
C2_Witness ==
  /\ page = "rendered"
  /\ latched = [origin |-> 0, t0 |-> RunClock]
  /\ RunClock > 0
  /\ session_state[row] = latched
  /\ \E r \in DOMAIN session_state : session_state[r].origin > 0

\* C3: remaining of a fixed anchor is never negative, is 0 from t0 + origin
\* on, and does not grow when the clock reading grows.
C3_RemainingMonotone ==
  /\ [](page = "rendered" =>
          /\ remaining >= 0
          /\ (clock >= latched.t0 + latched.origin => remaining = 0))
  /\ [][(page = "rendered" /\ clock' >= clock) => remaining' <= remaining]_vars

\* the anchor observed in mid-countdown, and one observed before its t0
C3_Witness ==
  /\ page = "rendered"
  /\ \/ (remaining > 0 /\ remaining < latched.origin)
     \/ (clock < latched.t0 /\ latched.origin > 0)

Decoded == result # NotLoaded

\* C4: an untouched token of a payload with all four fields,
\* decoded with the signing secret, gives Ok(payload).
C4_RoundTripAlways ==
  (Decoded /\ tampered = "none" /\ vsecret = secret /\ payload \in FullPayloads)
    => result = Ok(payload)

\* C4 with the clock: an untouched token of a payload with all four fields,
\* decoded with the signing secret, gives Ok(payload) provided the payload's
\* exp is not earlier than the decoder's clock.
C4_RoundTripUnexpired ==
  (Decoded /\ tampered = "none" /\ vsecret = secret /\ payload \in FullPayloads
   /\ payload[K_exp] >= clock)
    => result = Ok(payload)

C4_Witness ==
  /\ Decoded /\ tampered = "none" /\ vsecret = secret
  /\ payload \in FullPayloads
  /\ payload[K_origin] >= 10
  /\ result.kind = "Ok"

\* the bytes the payload portion of the token decodes to
PayloadBytes == b64url_decode(SubSeq(token, 1, DotAt(token) - 1))

NumDots == Cardinality({k \in 1..Len(token) : token[k] = Dot})

\* C5: every inverted bit of the payload portion of a signed token makes the
\* decoder holding the signing secret answer BadSignature, never a payload and
\* never Expired.
C5_TamperAlwaysBadSignature ==
  (Decoded /\ tampered = "payload") =>
    /\ result = BadSignature
    /\ result.kind \notin {"Ok", "Expired"}

\* C6: an untouched token decoded with a secret different from the signing
\* secret, the unset secret and "dev-only" among the secrets, gives
\* BadSignature.
C6_OtherSecretRejected ==
  (Decoded /\ tampered = "none" /\ vsecret # secret) => result = BadSignature

\* C7: an untouched token whose payload has exp, decoded with the signing
\* secret, gives Expired and no payload when exp < now, and is not Expired
\* when exp >= now.
C7_Expiry ==
  (Decoded /\ tampered = "none" /\ vsecret = secret /\ K_exp \in DOMAIN payload) =>
    /\ payload[K_exp] < clock => result = Expired
    /\ payload[K_exp] >= clock => result.kind # "Expired"

C7_Witness ==
  /\ Decoded /\ tampered = "none" /\ vsecret = secret
  /\ K_exp \in DOMAIN payload
  /\ payload[K_exp] < clock
  /\ result = Expired

\* C8: a token of two decodable parts whose signature is not the digest of its
\* payload bytes under the decoder's key gives BadSignature, whatever its
\* payload says; Expired and Ok are answered only for bytes the signer signed
\* under that key.
C8_SignatureFirst ==
  Decoded =>
    \A data \in {PayloadBytes} :
      \A given \in {b64url_decode(SubSeq(token, DotAt(token) + 1, Len(token)))} :
        /\ (NumDots = 1 /\ data.ok /\ given.ok
            /\ hmac_digest(SigningKey(vsecret), data.bytes) # given.bytes)
             => result = BadSignature
        /\ result.kind \in {"Ok", "Expired"}
             => /\ data.bytes = json_dumps(payload)
                /\ SigningKey(vsecret) = SigningKey(secret)

\* a payload with a later expiry under the old signature is refused
C8_Witness ==
  /\ Decoded /\ tampered = "forged" /\ vsecret = secret
  /\ json_loads(PayloadBytes.bytes).dict[K_exp] > clock
  /\ result = BadSignature

\* C9: a token that does not split into exactly two parts gives Malformed, and
\* so does an untouched token, decoded with the signing secret, whose payload
\* lacks one of row, origin, t0, exp.
C9_MalformedTokens ==
  Decoded =>
    /\ NumDots # 1 => result = Malformed
    /\ (tampered = "none" /\ vsecret = secret
        /\ DOMAIN payload # {K_row, K_origin, K_t0, K_exp})
         => result = Malformed

\* C10: a run with lock=1 and a timer_token that verifies latches exactly the
\* token's origin and t0.
C10_LockedUsesToken ==
  (page = "rendered" /\ DictGet(qp, "lock", <<>>) = S_1 /\ "timer_token" \in DOMAIN qp)
    => \A v \in {verify_and_load(qp["timer_token"], TOKEN, clock)} :
         v.kind = "Ok" =>
           latched = [origin |-> v.payload[K_origin], t0 |-> v.payload[K_t0]]

\* C11: a run given a timer_token whose decoding fails (Malformed,
\* BadSignature or Expired) starts no countdown: no page with a countdown is
\* rendered for such query parameters.
C11_BadTokenNoCountdown ==
  (page = "rendered" /\ "timer_token" \in DOMAIN qp)
    => verify_and_load(qp["timer_token"], TOKEN, RunClock).kind = "Ok"

\* C12: anchors are stored per row. A run of the script for a row creates or
\* replaces only the anchor under that row's key: the keys of the session are
\* the old ones and the row's, and every other row's anchor is unchanged.
C12_AnchorPerRow ==
  [][ScriptRun =>
       /\ DOMAIN session_state' = DOMAIN session_state \cup {row'}
       /\ \A r \in DOMAIN session_state \ {row'} :
            session_state'[r] = session_state[r]]_vars

\* after runs for two rows, the row anchored first still holds its anchor
\* while the row of the last run was anchored later
C12_Witness ==
  /\ page = "rendered"
  /\ session_state[row] = latched
  /\ \E r \in DOMAIN session_state \ {row} :
       /\ session_state[r].t0 < latched.t0
       /\ session_state[r].origin > 0

\* the text 'digits' shows k seconds
Shows(k) == digits = fmt_hms(k)

\* values a page of the model can show
ShownValues == 0..(60 + MaxDur)

\* C13: the tick loop. The text shown is always that of a value >= 0; a tick
\* at a shown value k > 0 shows k - 1; a shown 0 stays 0 for ever; the tick
\* that brings the text to 0 clears the interval, a cleared interval changes
\* nothing any more, and in the end the interval is cleared for good, also for
\* a page rendered with remaining 0.
C13_TickLoop ==
  /\ [](\E k \in ShownValues : Shows(k))
  /\ [][\A k \in ShownValues \ {0} :
         (Shows(k) /\ intv = "active") => digits' = fmt_hms(k - 1)]_vars
  /\ [][Shows(0) => digits' = fmt_hms(0)]_vars
  /\ [][(~Shows(0) /\ digits' = fmt_hms(0)) => intv' = "cleared"]_vars
  /\ [][intv = "cleared" => UNCHANGED clientVars]_vars
  /\ <>[](intv = "cleared" /\ Shows(0))

\* a countdown of more than a minute has run down to 0 and stopped
C13_Witness ==
  /\ intv = "cleared"
  /\ remaining > 60
  /\ js_remaining = 0
  /\ Shows(0)

\* the rules of the duration parser, as rules on a value and its text
RefPureDigits(t) == t # <<>> /\ \A i \in DOMAIN t : t[i] \in 48..57

RECURSIVE RefPow10(_)
RefPow10(n) == IF n = 0 THEN 1 ELSE 10 * RefPow10(n - 1)

RECURSIVE RefDigitSum(_, _)
\* the integer the digits t[i..] denote
RefDigitSum(t, i) ==
  IF i > Len(t) THEN 0
  ELSE (t[i] - 48) * RefPow10(Len(t) - i) + RefDigitSum(t, i + 1)

RefInt(t) == RefDigitSum(t, 1)

\* the nearest integer of halves/2, the even one of two nearest
RefRound(halves) ==
  CHOOSE n \in (0 - 4 - MaxDur)..(4 + MaxDur) :
    \/ 2 * n = halves
    \/ (halves % 2 = 1 /\ n % 2 = 0 /\ 2 * n - halves \in {0 - 1, 1})

\* rules 1 to 5 on a value whose text is t
RefRules(v, t) ==
  LET colons == {i \in DOMAIN t : t[i] = 58}
      G(a, b) == SubSeq(t, a, b)
  IN
  IF v.t \in {"int", "float"}
  THEN (IF v.t = "int" THEN (IF v.n < 0 THEN 0 ELSE v.n)
        ELSE IF RefRound(v.n) < 0 THEN 0 ELSE RefRound(v.n))
  ELSE IF v.t = "none" \/ t = <<>> THEN 0
  ELSE IF RefPureDigits(t) THEN RefInt(t)
  ELSE IF \E i \in colons : colons = {i} /\ RefPureDigits(G(1, i - 1))
                              /\ RefPureDigits(G(i + 1, Len(t)))
  THEN LET i == CHOOSE i \in colons : TRUE
       IN RefInt(G(1, i - 1)) * 60 + RefInt(G(i + 1, Len(t)))
  ELSE IF \E i, j \in colons :
            /\ i < j /\ colons = {i, j}
            /\ RefPureDigits(G(1, i - 1)) /\ RefPureDigits(G(i + 1, j - 1))
            /\ RefPureDigits(G(j + 1, Len(t)))
  THEN LET i == CHOOSE i \in colons : \A k \in colons : i <= k
           j == CHOOSE j \in colons : \A k \in colons : j >= k
       IN RefInt(G(1, i - 1)) * 3600 + RefInt(G(i + 1, j - 1)) * 60
          + RefInt(G(j + 1, Len(t)))
  ELSE 0

\* the text without the blanks around it
RefTrim(t) ==
  LET inked == {i \in DOMAIN t : t[i] # 32} IN
  IF inked = {} THEN <<>>
  ELSE SubSeq(t, CHOOSE i \in inked : \A k \in inked : i <= k,
                 CHOOSE i \in inked : \A k \in inked : i >= k)

\* C14: the timer a run parses from a raw value is what the rules give for
\* the value and its text as it stands: 0 for null and the empty text, the
\* rounded number clamped at 0, the integer of a text of digits, m*60+s,
\* h*3600+m*60+s, 0 for anything else; it is an integer >= 0.
C14_ParseRules ==
  page = "rendered" =>
    /\ latched.origin = RefRules(raw_q, raw_q.s)
    /\ latched.origin \in Nat

\* C14 for the trimmed text: the timer a run parses from a raw value is what
\* the rules give for the value and its text without the blanks around it;
\* it is an integer >= 0.
C14_ParseRulesTrimmed ==
  page = "rendered" =>
    /\ latched.origin = RefRules(raw_q, RefTrim(raw_q.s))
    /\ latched.origin \in Nat
    /\ timer_from_gsheet = latched.origin

\* a text of two groups with a blank before it was parsed to its seconds
C14_Witness ==
  /\ page = "rendered"
  /\ raw_q.t = "str"
  /\ Len(raw_q.s) > 0
  /\ raw_q.s[1] = 32
  /\ latched.origin >= 60

\* a candidate that is absent, None or the empty string
IsEmptyCandidate(v) == v = None \/ v = PyStr(<<>>)

\* the candidates of a response, in the order of precedence
Candidates(data) == <<data.timer_seconds, AQValue(data.A_Q), data.current_Q>>

\* C15: the value a run passes to the parser is the first of timer_seconds,
\* A_Q's value and current_Q that is not empty (absent, None or ""), and an
\* empty one only when all three are empty.
C15_FirstNonEmptyWins ==
  [][\A data \in CandidateResponses :
       Render(data, qp') =>
         \A c \in {Candidates(data)} :
           /\ \A i \in 1..3 :
                (~IsEmptyCandidate(c[i])
                 /\ \A j \in 1..(i - 1) : IsEmptyCandidate(c[j]))
                  => raw_q' = c[i]
           /\ (\A i \in 1..3 : IsEmptyCandidate(c[i]))
                => IsEmptyCandidate(raw_q')]_vars

\* the pieces of text s between the occurrences of character ch
Pieces(s, ch) ==
  LET at == {k \in 1..Len(s) : s[k] = ch}
      cuts == at \cup {0, Len(s) + 1}
      After(a) == CHOOSE b \in cuts : b > a /\ \A c \in cuts : c > a => b <= c
  IN {SubSeq(s, a + 1, After(a) - 1) : a \in cuts \ {Len(s) + 1}}

\* text t follows the prefix pre in s
Follows(s, pre, t) == s = pre \o t

\* C16: the link of every rendered page is the base, '?', and the three
\* parameters row=<n>, lock=1 and timer_token=<token>, n the row of the run
\* and at least 1; the token verifies under the secret to a payload of exactly
\* the four fields, with row n, origin >= 0, and origin and t0 those of the
\* anchor the session holds for the row.
C16_LinkAndPayload ==
  page = "rendered" =>
    \A url \in {secondary_url} :
      \A tok \in {countdown_token} :
        \A v \in {verify_and_load(tok, TOKEN, RunClock)} :
          /\ row >= 1
          /\ row \in DOMAIN session_state
          /\ \E query \in Pieces(url, 63) :
               /\ Follows(url, SECONDARY_APP_BASE \o <<63>>, query)
               /\ Pieces(query, 38) =
                    {<<114, 111, 119, 61>> \o IntStr(row),
                     <<108, 111, 99, 107, 61, 49>>,
                     <<116, 105, 109, 101, 114, 95, 116, 111, 107, 101, 110, 61>>
                       \o tok}
               /\ Follows(query, <<114, 111, 119, 61>> \o IntStr(row),
                          <<38, 108, 111, 99, 107, 61, 49, 38, 116, 105, 109,
                            101, 114, 95, 116, 111, 107, 101, 110, 61>> \o tok)
          /\ v.kind = "Ok"
          /\ DOMAIN v.payload = {K_row, K_origin, K_t0, K_exp}
          /\ v.payload[K_row] = row
          /\ v.payload[K_origin] >= 0
          /\ v.payload[K_origin] = session_state[row].origin
          /\ v.payload[K_t0] = session_state[row].t0

\* a page opened with a row parameter that is no number, rendered for row 1
\* with a running anchor taken after the start
C16_Witness ==
  /\ page = "rendered"
  /\ "row" \in DOMAIN qp
  /\ ~int_of_str(qp["row"]).ok
  /\ row = 1
  /\ latched.origin > 0
  /\ latched.t0 > 0

\* C17: when the secondary app has verified the token of a page and computed
\* its remaining time, that value is the remaining time the sender computes
\* from the latched anchor at the same clock reading.
C17_SameRemaining ==
  [][((loaded' # loaded \/ sec_remaining' # sec_remaining)
      /\ loaded'.kind = "Ok")
       => sec_remaining' = Remaining(latched, clock)]_vars

\* C18: within a session, the t0 stored under a row's key never decreases: a
\* step that replaces the anchor of a row stores a t0 not smaller than the one
\* it replaces.
C18_AnchoredAtMonotone ==
  [][\A r \in DOMAIN session_state \cap DOMAIN session_state' :
       session_state'[r].t0 >= session_state[r].t0]_vars

\* C19: on every rendered page 0 <= remaining <= origin, and so
\* 0 <= progress_value <= progress_max with progress_max >= 1, whatever the
\* clock read at the run, a reading before t0 included.
C19_ProgressBounds ==
  page = "rendered" =>
    /\ 0 <= remaining
    /\ remaining <= origin_seconds
    /\ origin_seconds = latched.origin
    /\ 0 <= progress_value
    /\ progress_value <= progress_max
    /\ progress_max >= 1

\* a page rendered when the clock read less than the t0 of its anchor
C19_Witness ==
  /\ page = "rendered"
  /\ RunClock < latched.t0
  /\ latched.origin > 0
  /\ remaining = latched.origin
  /\ progress_value = 0

====
